---- MODULE Spec2Model ----
(***************************************************************************)
(* ECDSA verify / recover of valida-secp256k1 over its curve abstraction.  *)
(*                                                                         *)
(* The arithmetic is carried out on a scaled-down curve of the same shape  *)
(* as secp256k1, so that every value can be enumerated:                    *)
(*   y^2 = x^3 + 7 over F_P, P = 163 (P % 4 = 3, as for secp256k1),        *)
(*   prime group order N = 139 with N < P < 2^8 < 2N,                      *)
(*   7 is a non-residue mod P and N^3 + 7 is a residue mod P,              *)
(* all of which also hold of secp256k1's p, n and 2^256.  A "byte" is a    *)
(* base-16 digit and every encoding has NumBytes = 2 of them.              *)
(***************************************************************************)
EXTENDS Integers, Sequences, FiniteSets, TLC

\* ------------------------------------------------------------ parameters
P == 163
N == 139
CurveB == 7
ByteBase == 16
NumBytes == 2

\* bounds of the explored inputs
MaxKey == 2
HashSamples == 3
ScalarSamples == 3
MaxRecId == 4
MaxInvZero == 1
HashStride == 89
ScalarStride == 37

\* Option::None of a field element, of a byte string, of a point
NoFe == -1
NoBytes == <<>>
NoPoint == [x |-> <<>>, y |-> <<>>]

\* ------------------------------------------------------------ byte strings
RECURSIVE LeToInt(_)
\* U256::from_le_slice: little-endian digits to an integer
LeToInt(b) == IF b = <<>> THEN 0 ELSE Head(b) + ByteBase * LeToInt(Tail(b))

RECURSIVE IntToLeN(_, _)
IntToLeN(v, len) ==
    IF len = 0 THEN <<>> ELSE <<v % ByteBase>> \o IntToLeN(v \div ByteBase, len - 1)

\* U256::to_le_byte_array
IntToLe(v) == IntToLeN(v, NumBytes)

\* <[u8; 32]>::reverse
Reverse(b) == [i \in 1..Len(b) |-> b[Len(b) + 1 - i]]

\* big-endian decoding / encoding, as k256's FieldElement::from_bytes / to_repr
BeToInt(b) == LeToInt(Reverse(b))
IntToBe(v) == Reverse(IntToLe(v))

Bytes32 == [1..NumBytes -> 0..(ByteBase - 1)]
ZeroBytes == [i \in 1..NumBytes |-> 0]

\* ------------------------------------------------------------ base field
Fe == 0..(P - 1)

\* FieldElement::normalize: the fully reduced representative
Normalize(a) == a % P

FeAdd(a, b) == (a + b) % P
\* Add<u64>: rhs is lifted with FieldElement::from(u64) and added
FeAddU64(a, c) == (a + (c % P)) % P
FeMul(a, b) == (a * b) % P
FeNeg(a) == (P - Normalize(a)) % P

RECURSIVE FePow(_, _)
FePow(a, e) ==
    IF e = 0 THEN 1
    ELSE LET h == FePow(a, e \div 2)
         IN  IF e % 2 = 0 THEN FeMul(h, h) ELSE FeMul(FeMul(h, h), a)

\* FieldElement::invert (Fermat): a^(P-2)
FeInvTable == [a \in Fe |-> FePow(a, P - 2)]
FeInverse(a) == FeInvTable[a]

\* FieldElement::sqrt for P % 4 = 3: the candidate a^((P+1)/4), kept only if
\* its square is a
FeSqrt(a) ==
    LET c == FePow(a, (P + 1) \div 4)
    IN  IF FeMul(c, c) = Normalize(a) THEN c ELSE NoFe

\* IsOdd: least-significant bit of the normalized value
FeIsOdd(a) == Normalize(a) % 2 = 1

\* Secp256k1FieldElement::from_repr: LE bytes -> reversed -> from_bytes (BE),
\* None when the value is not below the field prime
FeFromRepr(bytes) ==
    LET repr == Reverse(bytes)
        v == BeToInt(repr)
    IN  IF v < P THEN v ELSE NoFe

\* FromLeBytes for Secp256k1FieldElement
FeFromLeBytes(bytes) ==
    IF Len(bytes) # NumBytes THEN NoFe ELSE FeFromRepr(bytes)

\* Secp256k1FieldElement::to_repr: to_repr (BE) then reverse
FeToRepr(a) == Reverse(IntToBe(Normalize(a)))

\* ------------------------------------------------------------ curve group
\* The point-arithmetic engine (valida_intrinsics) is an external collaborator;
\* it is modelled by its contract: affine arithmetic on y^2 = x^3 + 7 with the
\* all-zero point as the neutral element.
Inf == <<0, 0>>

OnCurveA(x, y) == FeMul(y, y) = FeAddU64(FeMul(FeMul(x, x), x), CurveB)

GroupPoints == {pt \in Fe \X Fe : OnCurveA(pt[1], pt[2])} \cup {Inf}

AffineAdd(p, q) ==
    IF p = Inf THEN q
    ELSE IF q = Inf THEN p
    ELSE IF p[1] = q[1] /\ (p[2] + q[2]) % P = 0 THEN Inf
    ELSE LET lam == IF p = q
                    THEN FeMul(3 * p[1] * p[1], FeInverse(FeMul(2, p[2])))
                    ELSE FeMul(q[2] - p[2] + P, FeInverse((q[1] - p[1] + P) % P))
             x3 == (lam * lam + 2 * P - p[1] - q[1]) % P
             y3 == (lam * (p[1] - x3 + P) + P - p[2]) % P
         IN  <<x3, y3>>

RECURSIVE AffineMul(_, _)
AffineMul(k, p) ==
    IF k = 0 THEN Inf
    ELSE LET h == AffineMul(k \div 2, p)
             d == AffineAdd(h, h)
         IN  IF k % 2 = 0 THEN d ELSE AffineAdd(d, p)

MulTable == [pt \in GroupPoints |-> [k \in 0..(N - 1) |-> AffineMul(k, pt)]]

Times(k, pt) ==
    IF pt \in GroupPoints /\ k < N THEN MulTable[pt][k] ELSE AffineMul(k, pt)

\* intrinsics::Secp256k1Point { x, y }: little-endian coordinates
MkPoint(x, y) == [x |-> x, y |-> y]
ToAffine(pt) == <<LeToInt(pt.x), LeToInt(pt.y)>>
FromAffine(a) == MkPoint(IntToLe(a[1]), IntToLe(a[2]))

\* intrinsics::comb_secp256k1(&arg_1, &mut arg_2): arg_2.point becomes
\* arg_1.scalar * arg_1.point + arg_2.scalar * arg_2.point
comb_secp256k1(s1, p1, s2, p2) ==
    FromAffine(AffineAdd(Times(LeToInt(s1), ToAffine(p1)),
                         Times(LeToInt(s2), ToAffine(p2))))

\* intrinsics::smul_secp256k1(&scalar, &mut point)
smul_secp256k1(s, pt) == FromAffine(Times(LeToInt(s), ToAffine(pt)))

\* intrinsics::muls_secp256k1(&rhs, &mut lhs): product modulo the group order
muls_secp256k1(a, b) == IntToLe((LeToInt(a) * LeToInt(b)) % N)

RECURSIVE PowN(_, _)
PowN(a, e) ==
    IF e = 0 THEN 1
    ELSE LET h == PowN(a, e \div 2)
         IN  IF e % 2 = 0 THEN (h * h) % N ELSE (((h * h) % N) * a) % N

SInvTable == [a \in 1..(N - 1) |-> PowN(a, N - 2)]

\* What the engine hands back for the inverse of zero is not fixed by its
\* contract: any scalar, or an abort.
Panic == "Panic"
Aborted == <<>>
Scalars == {IntToLe(v) : v \in 0..(N - 1)}
InvZeroOutcomes == {IntToLe(v) : v \in 0..MaxInvZero} \cup {Aborted}

\* intrinsics::sinv_secp256k1(&mut scalar); inv0 is the engine's answer for 0
sinv_secp256k1(a, inv0) ==
    IF LeToInt(a) = 0 THEN inv0 ELSE IntToLe(SInvTable[LeToInt(a)])

\* ------------------------------------------------------------ scalar field
\* #[derive(Default)]: the all-zero encoding
ScalarDefault == ZeroBytes

\* const FRAC_MODULUS_2 = ORDER.shr_vartime(1)
FRAC_MODULUS_2 == N \div 2

IsHighNever(s) == FALSE
\* Secp256k1Scalar::is_high
is_high(s) == LeToInt(s) > FRAC_MODULUS_2

\* scalar_reduce: Scalar::reduce(U256::from_le_slice(s)), re-encoded LE
scalar_reduce(s) == IntToLe(LeToInt(s) % N)

\* Mul for Secp256k1Scalar
ScalarMul(a, b) == muls_secp256k1(b, a)

\* MultiplicativeInverse for Secp256k1Scalar
ScalarInverse(a, inv0) == sinv_secp256k1(a, inv0)

\* Secp256k1Scalar::create / FromLeBytes: only values below the order
ScalarFromLeBytes(value) ==
    IF LeToInt(value) < N /\ Len(value) = NumBytes THEN value ELSE NoBytes

\* ToLeBytes: the stored encoding itself
ScalarToLeBytes(a) == a

\* Neg for Secp256k1Scalar: LE -> U256 -> BE -> Scalar::from_repr -> negate -> LE
ScalarNeg(a) ==
    LET u256 == LeToInt(a)
        scalar == BeToInt(IntToBe(u256))
    IN  IntToLe((N - scalar) % N)

\* ------------------------------------------------------------ curve backend
\* constants.rs: the generator's coordinates, written big-endian
R_GEN_X_BE == <<0, 3>>
R_GEN_Y_BE == <<4, 5>>

\* constants.rs reverse_array
reverse_array(arr) == Reverse(arr)

\* const GENERATOR / HasGenerator::generator
GENERATOR == MkPoint(reverse_array(R_GEN_X_BE), reverse_array(R_GEN_Y_BE))

\* HasNeutral::neutral: Default::default(), the all-zero point
neutral == MkPoint(ZeroBytes, ZeroBytes)

OneBigEndian == [i \in 1..NumBytes |-> IF i = NumBytes THEN 1 ELSE 0]
\* const ONE in Add: x[0] = 1
ONE == [i \in 1..NumBytes |-> IF i = 1 THEN 1 ELSE 0]

\* Add for Secp256k1Point: comb_secp256k1 with both scalars ONE
PointAdd(lhs, rhs) == comb_secp256k1(ONE, lhs, ONE, rhs)

\* Mul<Secp256k1Scalar> for Secp256k1Point
PointMul(pt, rhs) == smul_secp256k1(rhs, pt)

\* EllipticCurve::lin_comb
lin_comb(s1, p1, s2, p2) == comb_secp256k1(s1, p1, s2, p2)

\* the curve equation on field elements, as create computes it
SatisfiesEquation(x, y) ==
    LET lhs == FeMul(y, y)
        rhs == FeAddU64(FeMul(FeMul(x, x), x), CurveB)
    IN  Normalize(lhs) = Normalize(rhs)

\* Secp256k1Point::create: Option<Self>
create(x_bytes, y_bytes) ==
    LET x == FeFromRepr(x_bytes)
        y == FeFromRepr(y_bytes)
    IN  IF x = NoFe \/ y = NoFe THEN NoPoint
        ELSE IF SatisfiesEquation(x, y) THEN MkPoint(x_bytes, y_bytes)
        ELSE NoPoint

\* TryFrom<(Secp256k1FieldElement, Secp256k1FieldElement)>: always Ok
try_from(x, y) == MkPoint(FeToRepr(x), FeToRepr(y))

\* EllipticCurve::get_x_coord
get_x_coord(pt) == scalar_reduce(pt.x)

ReduceHashNoReverse(hash) == scalar_reduce(hash)
\* EllipticCurve::reduce_hash: the digest is reversed, then reduced
reduce_hash(hash) ==
    LET b32_copied == Reverse(hash)
    IN  scalar_reduce(b32_copied)

\* EllipticCurve::curve_order_as_fe: the group order as a field element
curve_order_as_fe == N % P

SelectRootSwapped(y_r, is_y_odd) == IF FeIsOdd(y_r) = is_y_odd THEN FeNeg(y_r) ELSE y_r
\* "if y_r.is_odd() != is_y_odd { -y_r } else { y_r }"
SelectRoot(y_r, is_y_odd) == IF FeIsOdd(y_r) # is_y_odd THEN FeNeg(y_r) ELSE y_r

\* EllipticCurve::decompress: Option<Self>
decompress(bytes_le, is_y_odd) ==
    LET fx == FeFromLeBytes(bytes_le)
    IN  IF fx = NoFe THEN NoPoint
        ELSE LET y_squared == FeAddU64(FeMul(FeMul(fx, fx), fx), CurveB)
                 y_r == FeSqrt(y_squared)
             IN  IF y_r = NoFe THEN NoPoint
                 ELSE try_from(fx, SelectRoot(y_r, is_y_odd))

\* ------------------------------------------------------------ ECDSA engine
MkSignature(r, s) == [r |-> r, s |-> s]

\* RecoveryId::is_y_odd: (self.0 & 1) != 0
is_y_odd(id) == id % 2 = 1

IsXReducedNever(id) == FALSE
\* RecoveryId::is_x_reduced: (self.0 & 0b10) != 0
is_x_reduced(id) == (id \div 2) % 2 = 1

HasZeroComponentBoth(r, s) == r = ScalarDefault /\ s = ScalarDefault
\* "*r == C::Scalar::default() || *s == C::Scalar::default()"
HasZeroComponent(r, s) == r = ScalarDefault \/ s = ScalarDefault

VerifyOutcome(ret, args) == [ret |-> ret, inverse_args |-> args]

\* ECDSA::verify; inv0 is the engine's answer should it be asked to invert 0
verify(hash, signature, public_key, inv0) ==
    LET z == reduce_hash(hash)
        r == signature.r
        s == signature.s
    IN  IF HasZeroComponent(r, s) THEN VerifyOutcome("false", {})
        ELSE IF is_high(s) THEN VerifyOutcome("false", {})
        ELSE LET s_inv == ScalarInverse(s, inv0)
             IN  IF s_inv = Aborted THEN VerifyOutcome(Panic, {s})
                 ELSE LET u1 == ScalarMul(z, s_inv)
                          u2 == ScalarMul(r, s_inv)
                          u1_g == PointMul(GENERATOR, u1)
                          u2_q == PointMul(public_key, u2)
                          p == PointAdd(u1_g, u2_q)
                          v == get_x_coord(p)
                      IN  VerifyOutcome(IF v = r THEN "true" ELSE "false", {s})

RecoverOutcome(tag, point, point_r, args) ==
    [tag |-> tag, point |-> point, point_r |-> point_r, inverse_args |-> args]

\* ECDSA::recover: Ok(point), or an abort where the code unwraps.  The engine
\* uses the square root as a field element (HasSqrt::sqrt returns Self), so the
\* backend's missing root can only be unwrapped; no path builds an Err.
recover(hash, signature, recovery_id, inv0) ==
    LET r == signature.r
        s == signature.s
        fx0 == FeFromLeBytes(ScalarToLeBytes(r))
    IN  IF fx0 = NoFe THEN RecoverOutcome(Panic, neutral, neutral, {})
        ELSE
        LET fx == IF is_x_reduced(recovery_id) THEN FeAdd(fx0, curve_order_as_fe) ELSE fx0
            y_squared == FeAddU64(FeMul(FeMul(fx, fx), fx), CurveB)
            y_r == FeSqrt(y_squared)
        IN  IF y_r = NoFe THEN RecoverOutcome(Panic, neutral, neutral, {})
            ELSE
            LET y == SelectRoot(y_r, is_y_odd(recovery_id))
                point_r == try_from(fx, y)
                z == reduce_hash(hash)
                r_inv == ScalarInverse(r, inv0)
            IN  IF r_inv = Aborted THEN RecoverOutcome(Panic, neutral, point_r, {r})
                ELSE LET u_1 == ScalarNeg(ScalarMul(z, r_inv))
                         u_2 == ScalarMul(s, r_inv)
                         q_a == lin_comb(u_1, GENERATOR, u_2, point_r)
                     IN  RecoverOutcome("Ok", q_a, point_r, {r})

\* ------------------------------------------------------------ external signer
\* Standard ECDSA signing with secret key d and nonce k (the signer is outside
\* the library; the library's tests take its output as given).
SignerPoint(k) == FromAffine(AffineMul(k, ToAffine(GENERATOR)))

\* r = R.x mod n
SignerR(k) == IntToLe(ToAffine(SignerPoint(k))[1] % N)

\* s = k^-1 (z + r d) mod n, z the big-endian digest mod n
SignerS(d, hash, k) ==
    LET z == BeToInt(hash) % N
        r == LeToInt(SignerR(k))
    IN  IntToLe((SInvTable[k] * (z + r * d)) % N)

\* recovery id: bit 0 = parity of R.y, bit 1 = R.x >= n
SignerRecId(k) ==
    LET R == ToAffine(SignerPoint(k))
    IN  (IF R[2] % 2 = 1 THEN 1 ELSE 0) + (IF R[1] >= N THEN 2 ELSE 0)

\* Q = d * G
PublicKeyOf(d) == FromAffine(AffineMul(d, ToAffine(GENERATOR)))

\* ------------------------------------------------------------ explored inputs
W == ByteBase * ByteBase
Hashes == {IntToBe((i * HashStride) % W) : i \in 0..(HashSamples - 1)}
SampleScalars == {IntToLe((i * ScalarStride) % N) : i \in 0..(ScalarSamples - 1)}
SecretKeys == 1..MaxKey
Nonces == 1..(N - 1)
PublicKeys == {PublicKeyOf(d) : d \in SecretKeys} \cup {neutral}
ForgedPairs == (Scalars \X SampleScalars) \cup (SampleScalars \X Scalars)
RecoveryIds == 0..MaxRecId

\* ------------------------------------------------------------ state
VARIABLES
    hash,       \* the digest of the current ECDSA call (big-endian bytes)
    sig,        \* its signature
    pk,         \* its public key
    rid,        \* its recovery id
    signer,     \* where the inputs come from: the signer's d, k, R, or forged
    vres,       \* outcome of verify on the inputs
    rres,       \* outcome of recover on the inputs
    pt          \* the latest call of a point constructor / point addition

vars == <<hash, sig, pk, rid, signer, vres, rres, pt>>

NoVerify == VerifyOutcome("none", {})
NoRecover == RecoverOutcome("none", neutral, neutral, {})
NoSigner == [origin |-> "none", d |-> 0, k |-> 0, R |-> neutral]
\* a curve call: create(x, y) / decompress(x, odd) on bytes, try_from(fx, fy) on
\* field elements, a + b on points; res is the point it yields
CurveCall(op, x, y, fx, fy, odd, a, b, res) ==
    [op |-> op, x |-> x, y |-> y, fx |-> fx, fy |-> fy, odd |-> odd,
     a |-> a, b |-> b, res |-> res]
NoCurveCall ==
    CurveCall("none", ZeroBytes, ZeroBytes, 0, 0, FALSE, neutral, neutral, NoPoint)

Init ==
    /\ hash = ZeroBytes
    /\ sig = MkSignature(ScalarDefault, ScalarDefault)
    /\ pk = neutral
    /\ rid = 0
    /\ signer = NoSigner
    /\ vres = NoVerify
    /\ rres = NoRecover
    /\ pt = NoCurveCall

\* no call in progress: the library keeps nothing between calls
Idle == signer.origin = "none" /\ pt.op = "none"

\* a signer signs digest h under key d with nonce k, and hands out the
\* signature, the public key and the recovery id
Sign(d, h, k) ==
    /\ SignerR(k) # ScalarDefault
    /\ SignerS(d, h, k) # ScalarDefault
    /\ hash' = h
    /\ sig' = MkSignature(SignerR(k), SignerS(d, h, k))
    /\ pk' = PublicKeyOf(d)
    /\ rid' = SignerRecId(k)
    /\ signer' = [origin |-> "signed", d |-> d, k |-> k, R |-> SignerPoint(k)]
    /\ vres' = NoVerify
    /\ rres' = NoRecover
    /\ pt' = NoCurveCall

\* a caller supplies arbitrary well-formed inputs
Forge(h, r, s, q, id) ==
    /\ hash' = h
    /\ sig' = MkSignature(r, s)
    /\ pk' = q
    /\ rid' = id
    /\ signer' = [origin |-> "forged", d |-> 0, k |-> 0, R |-> neutral]
    /\ vres' = NoVerify
    /\ rres' = NoRecover
    /\ pt' = NoCurveCall

\* the engine's answers to "invert a" that a call inverting a can meet
InvZeroFor(a) == IF a = ScalarDefault THEN InvZeroOutcomes ELSE {Aborted}

Verify ==
    /\ signer.origin # "none"
    /\ vres.ret = "none"
    /\ \E inv0 \in InvZeroFor(sig.s) : vres' = verify(hash, sig, pk, inv0)
    /\ UNCHANGED <<hash, sig, pk, rid, signer, rres, pt>>

Recover ==
    /\ signer.origin # "none"
    /\ rres.tag = "none"
    /\ \E inv0 \in InvZeroFor(sig.r) : rres' = recover(hash, sig, rid, inv0)
    /\ UNCHANGED <<hash, sig, pk, rid, signer, vres, pt>>

Create(x_bytes, y_bytes) ==
    /\ pt' = CurveCall("create", x_bytes, y_bytes, 0, 0, FALSE, neutral, neutral,
                        create(x_bytes, y_bytes))
    /\ UNCHANGED <<hash, sig, pk, rid, signer, vres, rres>>

TryFrom(x, y) ==
    /\ pt' = CurveCall("try_from", ZeroBytes, ZeroBytes, x, y, FALSE, neutral, neutral,
                        try_from(x, y))
    /\ UNCHANGED <<hash, sig, pk, rid, signer, vres, rres>>

Decompress(bytes_le, odd) ==
    /\ pt' = CurveCall("decompress", bytes_le, ZeroBytes, 0, 0, odd, neutral, neutral,
                        decompress(bytes_le, odd))
    /\ UNCHANGED <<hash, sig, pk, rid, signer, vres, rres>>

AddPoints(a, b) ==
    /\ pt' = CurveCall("add", ZeroBytes, ZeroBytes, 0, 0, FALSE, a, b, PointAdd(a, b))
    /\ UNCHANGED <<hash, sig, pk, rid, signer, vres, rres>>

\* the call's values are dropped
Return ==
    /\ ~Idle
    /\ hash' = ZeroBytes
    /\ sig' = MkSignature(ScalarDefault, ScalarDefault)
    /\ pk' = neutral
    /\ rid' = 0
    /\ signer' = NoSigner
    /\ vres' = NoVerify
    /\ rres' = NoRecover
    /\ pt' = NoCurveCall

\* one call at a time: inputs are taken when no call is in progress
Next ==
    \/ Idle /\ \E d \in SecretKeys, h \in Hashes, k \in Nonces : Sign(d, h, k)
    \/ Idle /\ \E h \in Hashes, rs \in ForgedPairs, q \in PublicKeys,
                   id \in RecoveryIds : Forge(h, rs[1], rs[2], q, id)
    \/ Idle /\ \E x_bytes \in Bytes32, y_bytes \in Bytes32 : Create(x_bytes, y_bytes)
    \/ Idle /\ \E x \in Fe, y \in Fe : TryFrom(x, y)
    \/ Idle /\ \E bytes_le \in Bytes32, odd \in BOOLEAN : Decompress(bytes_le, odd)
    \/ Idle /\ \E a \in PublicKeys, b \in PublicKeys : AddPoints(a, b)
    \/ Verify
    \/ Recover
    \/ Return

Spec == Init /\ [][Next]_vars

\* ------------------------------------------------------------ properties
Verified == vres.ret # "none"
Recovered == rres.tag # "none"
Signed == signer.origin = "signed"
IntOf(b) == LeToInt(b)
LowS == 2 * IntOf(sig.s) < N
\* the malleable twin (r, n - s)
Twin == MkSignature(sig.r, IntToLe((N - IntOf(sig.s)) % N))
IsResidue(a) == \E y \in Fe : (y * y) % P = a % P
CurveRhs(x) == (x * x * x + 7) % P
OnCurvePoint(q) ==
    /\ IntOf(q.x) < P
    /\ IntOf(q.y) < P
    /\ (IntOf(q.y) * IntOf(q.y)) % P = CurveRhs(IntOf(q.x))

\* C1 (as stated): every signature a signer produces for a digest under d is
\* accepted by verify with the public key d*G.
C1_VerifyAcceptsEverySigned ==
    (Signed /\ Verified) => vres.ret = "true"

\* C1 (amended): every signature a signer produces whose s is low
\* (s <= floor(n/2)) is accepted by verify with the public key d*G.
C1_VerifyAcceptsLowSSigned ==
    (Signed /\ Verified /\ LowS) => vres.ret = "true"

C1_Witness ==
    /\ Signed /\ LowS /\ vres.ret = "true"
    /\ signer.d > 1
    /\ BeToInt(hash) >= N

\* C2: verify returns false whenever r is the zero scalar or s is the zero
\* scalar, whatever the digest, the key and the other component.
C2_ZeroComponentRejected ==
    (Verified /\ (IntOf(sig.r) = 0 \/ IntOf(sig.s) = 0)) => vres.ret = "false"

C2_Witness ==
    /\ Verified /\ IntOf(sig.r) = 0 /\ IntOf(sig.s) # 0 /\ LowS
    /\ vres.ret = "false"

\* C3: a scalar is high iff its value is strictly above floor(n/2); verify
\* rejects every high s; and when verify accepts (r, s) it rejects (r, n - s).
C3_NonMalleable ==
    /\ is_high(sig.s) <=> IntOf(sig.s) > N \div 2
    /\ (Verified /\ ~LowS) => vres.ret = "false"
    /\ vres.ret = "true" =>
          \A inv0 \in InvZeroFor(Twin.s) : verify(hash, Twin, pk, inv0).ret = "false"

C3_Witness ==
    /\ Signed /\ vres.ret = "true"
    /\ IntOf(sig.s) = N \div 2

\* C4: for a signature handed out by a signer together with the recovery id of
\* its ephemeral point R (bit 0 = parity of R.y, bit 1 = R.x >= n), recover
\* returns Ok(Q) with Q the signer's public key d*G.
C4_RecoverRoundTrip ==
    (/\ Signed /\ Recovered
     /\ (rid % 2 = 1) = (IntOf(signer.R.y) % 2 = 1)
     /\ ((rid \div 2) % 2 = 1) = (IntOf(signer.R.x) >= N))
    => (/\ rres.tag = "Ok"
        /\ rres.point = pk
        /\ rres.point = FromAffine(AffineMul(signer.d, ToAffine(GENERATOR))))

C4_Witness ==
    /\ Signed /\ rres.tag = "Ok" /\ rres.point = pk
    /\ IntOf(signer.R.x) >= N
    /\ rid = 3

\* the x-coordinate recover decompresses: r, plus n when bit 1 is set (as an integer)
CandidateX == IntOf(sig.r) + (IF (rid \div 2) % 2 = 1 THEN N ELSE 0)

\* C5: recover ends with Ok(point) or Err and never aborts; when fx^3 + 7 has
\* no square root the result is Err.
C5_RecoverTotal ==
    Recovered =>
        /\ rres.tag \in {"Ok", "Err"}
        /\ ~IsResidue(CurveRhs(CandidateX % P)) => rres.tag = "Err"

\* C6: every non-neutral point a constructor (create, try_from, decompress)
\* yields satisfies y^2 = x^3 + 7 (mod p).
C6_ConstructedPointsOnCurve ==
    (/\ pt.op \in {"create", "try_from", "decompress"}
     /\ pt.res # NoPoint
     /\ pt.res # neutral)
    => OnCurvePoint(pt.res)

ParityBit(b) == IF b THEN 1 ELSE 0

\* C7: for a field element x, decompress(x, b) yields (x, y) with
\* y^2 = x^3 + 7 and parity of y equal to b when x^3 + 7 is a residue, and
\* nothing otherwise; the point recover rebuilds has the parity of the
\* recovery id's bit 0.
C7_RootSelectedByParity ==
    /\ (pt.op = "decompress" /\ IntOf(pt.x) < P) =>
          IF IsResidue(CurveRhs(IntOf(pt.x)))
          THEN /\ pt.res # NoPoint
               /\ pt.res.x = pt.x
               /\ OnCurvePoint(pt.res)
               /\ IntOf(pt.res.y) % 2 = ParityBit(pt.odd)
          ELSE pt.res = NoPoint
    /\ rres.tag = "Ok" =>
          /\ OnCurvePoint(rres.point_r)
          /\ IntOf(rres.point_r.x) = CandidateX % P
          /\ IntOf(rres.point_r.y) % 2 = rid % 2

C7_Witness ==
    /\ pt.op = "decompress" /\ pt.res # NoPoint
    /\ pt.odd
    /\ FeSqrt(CurveRhs(IntOf(pt.x))) % 2 = 0

\* C8: generator + neutral = generator, and generator + generator =
\* generator * scalar(2).
C8_AddAgreesWithGroupLaw ==
    /\ (pt.op = "add" /\ pt.a = GENERATOR /\ pt.b = neutral) => pt.res = GENERATOR
    /\ (pt.op = "add" /\ pt.a = GENERATOR /\ pt.b = GENERATOR) =>
          /\ pt.res = PointMul(GENERATOR, ScalarFromLeBytes(<<2, 0>>))
          /\ pt.res # neutral

C8_Witness ==
    /\ pt.op = "add" /\ pt.a = GENERATOR /\ pt.b = GENERATOR
    /\ pt.res = PointMul(GENERATOR, ScalarFromLeBytes(<<2, 0>>))

\* C9: with bit 1 of the recovery id set, recover fails when r + n reaches the
\* field prime instead of going on with the sum wrapped modulo p.
C9_OverflowFails ==
    (Recovered /\ (rid \div 2) % 2 = 1 /\ IntOf(sig.r) + N >= P) => rres.tag # "Ok"

\* C10: no call of verify or recover hands the zero scalar to Scalar::inverse.
C10_NeverInvertsZero ==
    \A a \in vres.inverse_args \cup rres.inverse_args : IntOf(a) # 0

====
